---- MODULE Spec2Model ----
(***************************************************************************)
(* Model of summary_proto.py: the terraform plan summary script.          *)
(*                                                                         *)
(* A run walks the account directories, decodes each plan file into the   *)
(* module-level plan message, folds its resource_changes into a tally,    *)
(* scans its resource_drift for warnings, and finally sorts and renders   *)
(* the tallies.  Loops are modelled one iteration per step so that the    *)
(* intermediate tallies are visible.                                       *)
(*                                                                         *)
(* Strings that the program compares (account labels) are sequences of    *)
(* code points; log lines are <<level, message, argument>>.                *)
(***************************************************************************)
EXTENDS Integers, Sequences, FiniteSets, TLC

VARIABLES
    pc,              \* position of the run: find / record / drift / drift_check / done / exit
    todo,            \* account directories find_tfplan has not visited yet
    plan,            \* the module-level planfile_pb2.Plan() object (line 18)
    plan_data,       \* decoded content of the tfplan entry read last (line 133)
    account_marker,  \* parameter of the current / last read_plan_file call
    change_summary,  \* read_plan_file's tally (lines 147-152)
    drift_summary,   \* warn_if_drift_changes' working tally (lines 27-32)
    i,               \* 1-based position of the running for loop
    visited,         \* history: what the current read_plan_file call handed to handle_action
    summary,         \* accounts_summary, then __main__'s summary
    unsorted,        \* history: what find_tfplan returned, before line 170 reassigns summary
    log,             \* what the logger (and an uncaught traceback) has emitted
    printed,         \* print(summary_text_coloured) has happened
    stdout,          \* the rows printed
    md_written,      \* summary.md has been written
    summary_md,      \* the rows written to summary.md
    budget           \* bound of the model: observations the plan files not yet read may hold

vars == <<pc, todo, plan, plan_data, account_marker, change_summary, drift_summary,
          i, visited, summary, unsorted, log, printed, stdout, md_written, summary_md, budget>>

-----------------------------------------------------------------------------
(* Bounds of the model *)

\* observations (resource_changes plus resource_drift) in the plan files of one tree
MaxObs == 2
\* largest counter value of the tallies that SpecSort and SpecClassify start from
MaxCount == 2

-----------------------------------------------------------------------------
(* Values *)

\* the plan format version the script accepts
SupportedVersion == 3

\* the actions that handle_action's match statement names
KnownActions ==
    {"NOOP", "CREATE", "UPDATE", "DELETE", "DELETE_THEN_CREATE", "CREATE_THEN_DELETE"}

\* an action field can hold any enum number: "OTHER" is a value no case names
ActionValues == KnownActions \cup {"OTHER"}

\* "a/b", "a/c" and "b/a": the account directories of the modelled tree
AccountDirs == { <<97, 47, 98>>, <<97, 47, 99>>, <<98, 47, 97>> }

\* "a", "b", "c" and "a/b": labels of the tallies handed to the report
ReportLabels == { <<97>>, <<98>>, <<99>>, <<97, 47, 98>> }

\* a freshly constructed Plan(): protobuf defaults
EmptyPlan ==
    [version |-> 0, deferred_changes |-> <<>>, resource_changes |-> <<>>,
     resource_drift |-> <<>>]

RECURSIVE SeqsUpTo(_, _)
SeqsUpTo(S, n) ==
    IF n = 0 THEN { <<>> }
    ELSE LET shorter == SeqsUpTo(S, n - 1)
         IN  shorter \cup { Append(s, x) : s \in shorter, x \in S }

\* the plan messages a tfplan entry may hold, by the observations in them
PlanMessages ==
    [n \in 0..MaxObs |->
        UNION { { [version |-> v, deferred_changes |-> d, resource_changes |-> c,
                   resource_drift |-> r] :
                    v \in {SupportedVersion, SupportedVersion + 1},
                    d \in { <<>>, <<"deferred">> },
                    r \in SeqsUpTo(ActionValues, n - Len(c)) } :
                c \in SeqsUpTo(ActionValues, n) }]

\* the file rglob found: not a zip, a zip without a tfplan entry, or a plan
PlanFiles ==
    [n \in 0..MaxObs |->
        { [kind |-> k, data |-> EmptyPlan] : k \in {"bad_zip", "no_entry"} }
        \cup { [kind |-> "ok", data |-> m] : m \in PlanMessages[n] }]

Observations(message) == Len(message.resource_changes) + Len(message.resource_drift)

-----------------------------------------------------------------------------
(* The tally dict *)

NewSummary(marker) ==
    [account |-> marker, create |-> 0, update |-> 0, delete |-> 0]

Total(t) == t.create + t.update + t.delete

-----------------------------------------------------------------------------
(* Log lines *)

CombinedActionWarning == <<"WARNING", "CREATE_THEN_DELETE action encountered", <<>> >>
UnknownActionError    == <<"ERROR", "Unknown action", <<>> >>
DriftWarning(marker)  == <<"WARNING", "had drift, might not result in change", marker>>
TooManyPlansError     == <<"ERROR", "More plan_files than one in account", <<>> >>
BadZipError           == <<"ERROR", "The file is not a valid ZIP file", <<>> >>
VersionError          == <<"ERROR", "Unsupported plan version", <<>> >>
DeferredError         == <<"ERROR", "deferred changes found in the plan", <<>> >>
KeyErrorTraceback     == <<"TRACEBACK", "KeyError: no item named tfplan", <<>> >>

\* where sys.exit(1), or an uncaught exception, leaves the run
sys_exit_continue == "find"
sys_exit == "exit"

-----------------------------------------------------------------------------
(* handle_action: the new dict, the lines logged, and whether it called sys.exit *)

Outcome(t, lines, exit) == [account_summary |-> t, log |-> lines, exit |-> exit]

\* mutant: a replacement counted as a delete and a create
handle_action_replace_both(action, account_summary) ==
    CASE action = "NOOP" -> Outcome(account_summary, <<>>, FALSE)
      [] action = "CREATE" ->
            Outcome([account_summary EXCEPT !.create = @ + 1], <<>>, FALSE)
      [] action = "UPDATE" ->
            Outcome([account_summary EXCEPT !.update = @ + 1], <<>>, FALSE)
      [] action = "DELETE" ->
            Outcome([account_summary EXCEPT !.delete = @ + 1], <<>>, FALSE)
      [] action = "DELETE_THEN_CREATE" ->
            Outcome([account_summary EXCEPT !.delete = @ + 1, !.create = @ + 1], <<>>, FALSE)
      [] action = "CREATE_THEN_DELETE" ->
            Outcome([account_summary EXCEPT !.delete = @ + 1],
                    <<CombinedActionWarning>>, FALSE)
      [] OTHER -> Outcome(account_summary, <<UnknownActionError>>, TRUE)

\* mutant: UPDATE falls through to the NOOP case
handle_action_update_dropped(action, account_summary) ==
    CASE action \in {"NOOP", "UPDATE"} -> Outcome(account_summary, <<>>, FALSE)
      [] action = "CREATE" ->
            Outcome([account_summary EXCEPT !.create = @ + 1], <<>>, FALSE)
      [] action \in {"DELETE", "DELETE_THEN_CREATE"} ->
            Outcome([account_summary EXCEPT !.delete = @ + 1], <<>>, FALSE)
      [] action = "CREATE_THEN_DELETE" ->
            Outcome([account_summary EXCEPT !.delete = @ + 1],
                    <<CombinedActionWarning>>, FALSE)
      [] OTHER -> Outcome(account_summary, <<UnknownActionError>>, TRUE)

\* mutant: the default case returns instead of exiting
handle_action_default_ignored(action, account_summary) ==
    CASE action = "NOOP" -> Outcome(account_summary, <<>>, FALSE)
      [] action = "CREATE" ->
            Outcome([account_summary EXCEPT !.create = @ + 1], <<>>, FALSE)
      [] action = "UPDATE" ->
            Outcome([account_summary EXCEPT !.update = @ + 1], <<>>, FALSE)
      [] action \in {"DELETE", "DELETE_THEN_CREATE"} ->
            Outcome([account_summary EXCEPT !.delete = @ + 1], <<>>, FALSE)
      [] action = "CREATE_THEN_DELETE" ->
            Outcome([account_summary EXCEPT !.delete = @ + 1],
                    <<CombinedActionWarning>>, FALSE)
      [] OTHER -> Outcome(account_summary, <<>>, FALSE)

handle_action(action, account_summary) ==
    CASE action = "NOOP" -> Outcome(account_summary, <<>>, FALSE)
      [] action = "CREATE" ->
            Outcome([account_summary EXCEPT !.create = @ + 1], <<>>, FALSE)
      [] action = "UPDATE" ->
            Outcome([account_summary EXCEPT !.update = @ + 1], <<>>, FALSE)
      [] action = "DELETE" ->
            Outcome([account_summary EXCEPT !.delete = @ + 1], <<>>, FALSE)
      [] action = "DELETE_THEN_CREATE" ->
            Outcome([account_summary EXCEPT !.delete = @ + 1], <<>>, FALSE)
      [] action = "CREATE_THEN_DELETE" ->
            Outcome([account_summary EXCEPT !.delete = @ + 1],
                    <<CombinedActionWarning>>, FALSE)
      [] OTHER -> Outcome(account_summary, <<UnknownActionError>>, TRUE)

-----------------------------------------------------------------------------
(* read_plan_file: decoding and validation *)

\* mutant: MergeFromString, which does not clear the message first
MergeFromString(message, data) ==
    [version |-> data.version,
     deferred_changes |-> message.deferred_changes \o data.deferred_changes,
     resource_changes |-> message.resource_changes \o data.resource_changes,
     resource_drift |-> message.resource_drift \o data.resource_drift]

\* plan.ParseFromString(plan_data): clears the message, then reads the data into it
ParseFromString(message, data) ==
    [version |-> data.version,
     deferred_changes |-> data.deferred_changes,
     resource_changes |-> data.resource_changes,
     resource_drift |-> data.resource_drift]

\* mutant: any version from 3 on is accepted
version_at_least(message) == message.version >= SupportedVersion
version_supported(message) == message.version = SupportedVersion

has_deferred_changes(message) == Len(message.deferred_changes) > 0

\* record_changes run to its end on a sequence of recognized actions
RECURSIVE record_all(_, _)
record_all(account_summary, actions) ==
    IF actions = <<>> THEN account_summary
    ELSE record_all(handle_action(Head(actions), account_summary).account_summary,
                    Tail(actions))

\* mutant: the drift observations are recorded into the returned tally as well
returned_with_drift(changes, drift) == record_all(changes, drift)

\* what read_plan_file returns once warn_if_drift_changes(account_marker,
\* plan.resource_drift) is through: change_summary, which that call never sees
returned_summary(changes, drift) == changes

-----------------------------------------------------------------------------
(* warn_if_drift_changes: the test after handle_action (lines 35-42) *)

nonzero(t) == t.create > 0 \/ t.update > 0 \/ t.delete > 0

DriftChecked(t, lines) == [drift_summary |-> t, log |-> lines]

\* mutant: the warning is logged but the working tally is kept
drift_check_no_reset(marker, t) ==
    IF nonzero(t) THEN DriftChecked(t, <<DriftWarning(marker)>>)
    ELSE DriftChecked(t, <<>>)

drift_check(marker, t) ==
    IF nonzero(t) THEN DriftChecked(NewSummary(marker), <<DriftWarning(marker)>>)
    ELSE DriftChecked(t, <<>>)

-----------------------------------------------------------------------------
(* The report: sorted() with the key of line 170, and pretty_print_summary *)

\* str < str: by code point, a proper prefix first
RECURSIVE StrLess(_, _)
StrLess(s, t) ==
    IF s = <<>> THEN t # <<>>
    ELSE IF t = <<>> THEN FALSE
    ELSE IF Head(s) # Head(t) THEN Head(s) < Head(t)
    ELSE StrLess(Tail(s), Tail(t))

\* mutant: the key without the account
sort_key_no_account(x) == <<-x.delete, -x.update, -x.create, <<>> >>

\* mutant: updates ascending
sort_key_update_ascending(x) == <<-x.delete, x.update, -x.create, x.account>>

sort_key(x) == <<-x.delete, -x.update, -x.create, x.account>>

\* tuple < tuple
KeyLess(k, l) ==
    IF k[1] # l[1] THEN k[1] < l[1]
    ELSE IF k[2] # l[2] THEN k[2] < l[2]
    ELSE IF k[3] # l[3] THEN k[3] < l[3]
    ELSE StrLess(k[4], l[4])

\* sorted() is stable: x goes behind every row whose key is not greater
RECURSIVE InsertSorted(_, _)
InsertSorted(x, rows) ==
    IF rows = <<>> THEN <<x>>
    ELSE IF KeyLess(sort_key(x), sort_key(Head(rows))) THEN <<x>> \o rows
    ELSE <<Head(rows)>> \o InsertSorted(x, Tail(rows))

RECURSIVE SortedFrom(_, _)
SortedFrom(done, rest) ==
    IF rest = <<>> THEN done
    ELSE SortedFrom(InsertSorted(Head(rest), done), Tail(rest))

sorted(rows) == SortedFrom(<<>>, rows)

\* a coloured cell: highlighted when the value is above zero
colour_if_not_zero(value, colour) ==
    IF value > 0 THEN <<colour, value>> ELSE <<"PLAIN", value>>

MarkdownRows(rows) ==
    [k \in 1..Len(rows) |->
        <<rows[k].account, rows[k].create, rows[k].update, rows[k].delete>>]

ColouredRows(rows) ==
    [k \in 1..Len(rows) |->
        <<rows[k].account, colour_if_not_zero(rows[k].create, "GREEN"),
          colour_if_not_zero(rows[k].update, "YELLOW"),
          colour_if_not_zero(rows[k].delete, "RED")>>]

-----------------------------------------------------------------------------
(* The run *)

Init ==
    /\ pc = "find"
    /\ todo = AccountDirs
    /\ plan = EmptyPlan
    /\ plan_data = EmptyPlan
    /\ account_marker = <<>>
    /\ change_summary = NewSummary(<<>>)
    /\ drift_summary = NewSummary(<<>>)
    /\ i = 1
    /\ visited = <<>>
    /\ summary = <<>>
    /\ unsorted = <<>>
    /\ log = <<>>
    /\ printed = FALSE
    /\ stdout = <<>>
    /\ md_written = FALSE
    /\ summary_md = <<>>
    /\ budget = MaxObs

\* find_tfplan, an account directory without a plan file: nothing is appended
SkipAccount ==
    /\ pc = "find"
    /\ \E dir \in todo : todo' = todo \ {dir}
    /\ UNCHANGED <<pc, plan, plan_data, account_marker, change_summary, drift_summary,
                   i, visited, summary, unsorted, log, printed, stdout, md_written, summary_md, budget>>

\* find_tfplan, an account directory with more than one plan file
TooManyPlans ==
    /\ pc = "find"
    /\ \E dir \in todo : todo' = todo \ {dir}
    /\ log' = Append(log, TooManyPlansError)
    /\ pc' = sys_exit
    /\ UNCHANGED <<plan, plan_data, account_marker, change_summary, drift_summary,
                   i, visited, summary, unsorted, printed, stdout, md_written, summary_md, budget>>

\* read_plan_file up to the call of record_changes (lines 127-152)
ReadPlanFile ==
    /\ pc = "find"
    /\ \E dir \in todo, file \in PlanFiles[budget] :
        /\ todo' = todo \ {dir}
        /\ account_marker' = dir
        /\ visited' = <<>>
        /\ budget' = budget - Observations(file.data)
        /\ IF file.kind = "bad_zip"
           THEN /\ log' = Append(log, BadZipError)
                /\ pc' = sys_exit
                /\ UNCHANGED <<plan, plan_data, change_summary, i>>
           ELSE IF file.kind = "no_entry"
           THEN /\ log' = Append(log, KeyErrorTraceback)
                /\ pc' = sys_exit
                /\ UNCHANGED <<plan, plan_data, change_summary, i>>
           ELSE LET parsed == ParseFromString(plan, file.data) IN
                /\ plan_data' = file.data
                /\ plan' = parsed
                /\ IF ~version_supported(parsed)
                   THEN /\ log' = Append(log, VersionError)
                        /\ pc' = sys_exit
                        /\ UNCHANGED <<change_summary, i>>
                   ELSE IF has_deferred_changes(parsed)
                   THEN /\ log' = Append(log, DeferredError)
                        /\ pc' = sys_exit
                        /\ UNCHANGED <<change_summary, i>>
                   ELSE /\ log' = log
                        /\ change_summary' = NewSummary(dir)
                        /\ i' = 1
                        /\ pc' = "record"
    /\ UNCHANGED <<drift_summary, summary, unsorted, printed, stdout, md_written, summary_md>>

\* record_changes, one iteration (lines 22-23)
RecordStep ==
    /\ pc = "record"
    /\ i <= Len(plan.resource_changes)
    /\ LET action == plan.resource_changes[i]
           r == handle_action(action, change_summary)
       IN  /\ visited' = Append(visited, <<"change", action>>)
           /\ change_summary' = r.account_summary
           /\ log' = log \o r.log
           /\ pc' = IF r.exit THEN sys_exit ELSE "record"
    /\ i' = i + 1
    /\ UNCHANGED <<todo, plan, plan_data, account_marker, drift_summary, summary,
                   unsorted, printed, stdout, md_written, summary_md, budget>>

\* record_changes returns; warn_if_drift_changes starts (lines 27-32)
StartDrift ==
    /\ pc = "record"
    /\ i > Len(plan.resource_changes)
    /\ drift_summary' = NewSummary(account_marker)
    /\ i' = 1
    /\ pc' = "drift"
    /\ UNCHANGED <<todo, plan, plan_data, account_marker, change_summary, visited,
                   summary, unsorted, log, printed, stdout, md_written, summary_md, budget>>

\* warn_if_drift_changes, the call of handle_action (line 34)
DriftStep ==
    /\ pc = "drift"
    /\ i <= Len(plan.resource_drift)
    /\ LET action == plan.resource_drift[i]
           r == handle_action(action, drift_summary)
       IN  /\ visited' = Append(visited, <<"drift", action>>)
           /\ drift_summary' = r.account_summary
           /\ log' = log \o r.log
           /\ pc' = IF r.exit THEN sys_exit ELSE "drift_check"
    /\ i' = i + 1
    /\ UNCHANGED <<todo, plan, plan_data, account_marker, change_summary, summary,
                   unsorted, printed, stdout, md_written, summary_md, budget>>

\* warn_if_drift_changes, the test that follows (lines 35-42)
DriftCheck ==
    /\ pc = "drift_check"
    /\ LET r == drift_check(account_marker, drift_summary)
       IN  /\ drift_summary' = r.drift_summary
           /\ log' = log \o r.log
    /\ pc' = "drift"
    /\ UNCHANGED <<todo, plan, plan_data, account_marker, change_summary, i, visited,
                   summary, unsorted, printed, stdout, md_written, summary_md, budget>>

\* read_plan_file returns and find_tfplan appends the tally (lines 156, 86)
Return ==
    /\ pc = "drift"
    /\ i > Len(plan.resource_drift)
    /\ summary' = Append(summary, returned_summary(change_summary, plan.resource_drift))
    /\ pc' = "find"
    /\ UNCHANGED <<todo, plan, plan_data, account_marker, change_summary, drift_summary,
                   i, visited, unsorted, log, printed, stdout, md_written, summary_md, budget>>

\* __main__ after find_tfplan has returned (lines 170-177)
Report ==
    /\ pc = "find"
    /\ todo = {}
    /\ unsorted' = summary
    /\ summary' = sorted(summary)
    /\ printed' = TRUE
    /\ stdout' = ColouredRows(summary')
    /\ md_written' = (Len(summary') # 0)
    /\ summary_md' = IF Len(summary') = 0 THEN <<>> ELSE MarkdownRows(summary')
    /\ log' = IF Len(summary') = 0 THEN Append(log, <<"INFO", "No accounts planned", <<>> >>)
              ELSE log
    /\ pc' = "done"
    /\ UNCHANGED <<todo, plan, plan_data, account_marker, change_summary, drift_summary,
                   i, visited, budget>>

Next ==
    \/ SkipAccount
    \/ TooManyPlans
    \/ ReadPlanFile
    \/ RecordStep
    \/ StartDrift
    \/ DriftStep
    \/ DriftCheck
    \/ Return
    \/ Report

Spec == Init /\ [][Next]_vars

-----------------------------------------------------------------------------
(* handle_action on its own: any tally, any action *)

Tallies(markers, n) ==
    { [account |-> m, create |-> c, update |-> u, delete |-> d] :
        m \in markers, c \in 0..n, u \in 0..n, d \in 0..n }

ClassifyInit ==
    /\ pc = "record"
    /\ todo = {}
    /\ \E action \in ActionValues :
        /\ plan = [EmptyPlan EXCEPT !.version = SupportedVersion,
                                    !.resource_changes = <<action>>]
        /\ plan_data = plan
    /\ change_summary \in Tallies(AccountDirs, MaxCount)
    /\ account_marker = change_summary.account
    /\ drift_summary = NewSummary(<<>>)
    /\ i = 1
    /\ visited = <<>>
    /\ summary = <<>>
    /\ unsorted = <<>>
    /\ log = <<>>
    /\ printed = FALSE
    /\ stdout = <<>>
    /\ md_written = FALSE
    /\ summary_md = <<>>
    /\ budget = 0

ClassifyNext == RecordStep

SpecClassify == ClassifyInit /\ [][ClassifyNext]_vars

-----------------------------------------------------------------------------
(* The report on its own: any list of tallies with distinct accounts *)

\* the tallies of plan files with at most n counted changes
TalliesWithin(markers, n) ==
    UNION { UNION { { [account |-> m, create |-> c, update |-> u, delete |-> d] :
                        m \in markers, d \in 0..(n - c - u) } :
                    u \in 0..(n - c) } :
            c \in 0..n }

\* the lists find_tfplan can return: one tally for each account of a set of accounts
TallyLists ==
    UNION { { rows \in [1..Cardinality(markers) -> TalliesWithin(markers, MaxCount)] :
                \A k, l \in DOMAIN rows : k # l => rows[k].account # rows[l].account } :
            markers \in { m \in SUBSET ReportLabels : Cardinality(m) < Cardinality(ReportLabels) } }

ReportInit ==
    /\ pc = "find"
    /\ todo = {}
    /\ plan = EmptyPlan
    /\ plan_data = EmptyPlan
    /\ account_marker = <<>>
    /\ change_summary = NewSummary(<<>>)
    /\ drift_summary = NewSummary(<<>>)
    /\ i = 1
    /\ visited = <<>>
    /\ summary \in TallyLists
    /\ unsorted = <<>>
    /\ log = <<>>
    /\ printed = FALSE
    /\ stdout = <<>>
    /\ md_written = FALSE
    /\ summary_md = <<>>
    /\ budget = 0

ReportNext == Report

SpecReport == ReportInit /\ [][ReportNext]_vars

-----------------------------------------------------------------------------
(* Vocabulary of the properties *)

Recognized(actions) == \A k \in 1..Len(actions) : actions[k] \in KnownActions

NonNoop(actions) == Cardinality({ k \in 1..Len(actions) : actions[k] # "NOOP" })

CountOf(actions, kinds) == Cardinality({ k \in 1..Len(actions) : actions[k] \in kinds })

\* the actions the current read_plan_file call has handed to handle_action from one loop
VisitedOf(loop) ==
    LET hits == SelectSeq(visited, LAMBDA v : v[1] = loop)
    IN  [k \in 1..Len(hits) |-> hits[k][2]]

Tagged(loop, actions) == [k \in 1..Len(actions) |-> <<loop, actions[k]>>]

LastLog == IF log = <<>> THEN <<"NONE", "", <<>> >> ELSE log[Len(log)]

DriftWarningsFor(marker) ==
    Cardinality({ k \in 1..Len(log) : log[k] = DriftWarning(marker) })

Fatal == \E k \in 1..Len(log) : log[k][1] \in {"ERROR", "TRACEBACK"}

\* read_plan_file has returned for account_marker and its tally has been appended
Completed ==
    /\ pc = "find"
    /\ summary # <<>>
    /\ summary[Len(summary)].account = account_marker

Scanning == pc \in {"drift", "drift_check"}

-----------------------------------------------------------------------------
\* one row of the policy table, as an effect on the dict, the log and the run
PolicyEffect(action, before, after, lines, exited) ==
    /\ after.account = before.account
    /\ action = "NOOP" =>
          after = before /\ lines = <<>> /\ ~exited
    /\ action = "CREATE" =>
          /\ after.create = before.create + 1
          /\ after.update = before.update /\ after.delete = before.delete
          /\ lines = <<>> /\ ~exited
    /\ action = "UPDATE" =>
          /\ after.update = before.update + 1
          /\ after.create = before.create /\ after.delete = before.delete
          /\ lines = <<>> /\ ~exited
    /\ action \in {"DELETE", "DELETE_THEN_CREATE"} =>
          /\ after.delete = before.delete + 1
          /\ after.create = before.create /\ after.update = before.update
          /\ lines = <<>> /\ ~exited
    /\ action = "CREATE_THEN_DELETE" =>
          /\ after.delete = before.delete + 1
          /\ after.create = before.create /\ after.update = before.update
          /\ lines = <<CombinedActionWarning>> /\ ~exited

(* C1: handle_action applies the policy table: NOOP changes nothing; CREATE adds
   one to create only; UPDATE adds one to update only; DELETE, DELETE_THEN_CREATE
   and CREATE_THEN_DELETE add one to delete only; CREATE_THEN_DELETE also logs a
   warning and returns normally; the account label is never changed. *)
C1_PolicyTable ==
    [][ (pc = "record" /\ i <= Len(plan.resource_changes)) =>
            PolicyEffect(plan.resource_changes[i], change_summary, change_summary',
                         SubSeq(log', Len(log) + 1, Len(log')), pc' = "exit") ]_vars

C1_Witness ==
    /\ visited = << <<"change", "CREATE_THEN_DELETE">> >>
    /\ change_summary.delete = MaxCount + 1
    /\ change_summary.create = MaxCount
    /\ log = <<CombinedActionWarning>>
    /\ pc = "record"

-----------------------------------------------------------------------------
\* the pass over resource_changes, as seen in one state
C2_State ==
    /\ (pc = "record" /\ Recognized(plan.resource_changes)) =>
          /\ VisitedOf("change") = SubSeq(plan.resource_changes, 1, i - 1)
          /\ Total(change_summary) = NonNoop(VisitedOf("change"))
    /\ (Scanning \/ Completed) =>
          /\ VisitedOf("change") = plan.resource_changes
          /\ Total(change_summary) = NonNoop(plan.resource_changes)
    /\ Completed =>
          Total(summary[Len(summary)]) = NonNoop(plan.resource_changes)

(* C2: on recognized actions record_changes, started on a zero tally, visits the
   elements in order, each once; after every step create + update + delete is the
   number of non-NOOP changes visited so far, at the end the number of non-NOOP
   changes of the whole sequence; and no counter decreases during the pass. *)
C2_RecordChanges ==
    [][ /\ C2_State'
        /\ pc = "record" =>
              /\ change_summary'.create >= change_summary.create
              /\ change_summary'.update >= change_summary.update
              /\ change_summary'.delete >= change_summary.delete ]_vars

C2_Witness ==
    /\ Completed
    /\ Len(plan.resource_changes) = MaxObs
    /\ "NOOP" \in { plan.resource_changes[k] : k \in 1..Len(plan.resource_changes) }
    /\ Total(summary[Len(summary)]) = MaxObs - 1

-----------------------------------------------------------------------------
\* the last read_plan_file call got as far as ParseFromString
Decoded ==
    /\ account_marker # <<>>
    /\ LastLog \notin {BadZipError, KeyErrorTraceback}

\* nothing of the current plan file was classified, and no tally exists for it
NothingCounted ==
    /\ visited = <<>>
    /\ \A k \in 1..Len(summary) : summary[k].account # account_marker

(* C3: read_plan_file gets as far as a tally only for a plan of version 3 without
   deferred changes; a plan of another version ends the run with the version
   error, a version 3 plan with deferred changes ends it with the deferred
   changes error, both before anything of that plan is classified or counted. *)
C3_Validation ==
    /\ (pc \in {"record", "drift", "drift_check"} \/ Completed) =>
          plan.version = SupportedVersion /\ plan.deferred_changes = <<>>
    /\ (Decoded /\ plan.version # SupportedVersion) =>
          pc = "exit" /\ LastLog = VersionError /\ NothingCounted
    /\ (Decoded /\ plan.version = SupportedVersion /\ plan.deferred_changes # <<>>) =>
          pc = "exit" /\ LastLog = DeferredError /\ NothingCounted
    /\ LastLog = VersionError => plan.version # SupportedVersion
    /\ LastLog = DeferredError =>
          plan.version = SupportedVersion /\ plan.deferred_changes # <<>>

C3_Witness ==
    /\ pc = "exit"
    /\ LastLog = DeferredError
    /\ plan.resource_changes # <<>>
    /\ plan.resource_drift # <<>>
    /\ summary # <<>>

-----------------------------------------------------------------------------
(* C4: an action outside the six known ones is never passed over: the elements
   are classified in order without a gap, and the first unknown one classified,
   in resource_changes or in resource_drift, logs the error and ends the run, so
   that it is the last element classified. *)
C4_UnknownAction ==
    /\ \A k \in 1..Len(visited) :
          visited[k][2] \notin KnownActions =>
              k = Len(visited) /\ pc = "exit" /\ LastLog = UnknownActionError
    /\ LET all == Tagged("change", plan.resource_changes)
                    \o Tagged("drift", plan.resource_drift)
       IN  /\ Len(visited) <= Len(all)
           /\ visited = SubSeq(all, 1, Len(visited))
           /\ pc = "record" => Len(visited) = i - 1
           /\ pc = "drift" => Len(visited) = Len(plan.resource_changes) + i - 1
           /\ Completed => visited = all
    /\ LastLog = UnknownActionError =>
          pc = "exit" /\ visited # <<>> /\ visited[Len(visited)][2] \notin KnownActions

C4_Witness ==
    /\ pc = "exit"
    /\ LastLog = UnknownActionError
    /\ visited = << <<"drift", "OTHER">> >>
    /\ Len(plan.resource_drift) = MaxObs
    /\ plan.resource_drift[MaxObs] = "DELETE"

-----------------------------------------------------------------------------
(* C5: a fatal condition ends the run at once, whatever was processed before: no
   step follows it, so no later account is processed, nothing is printed and
   summary.md is not written. *)
C5_NoPartialSuccess ==
    Fatal =>
        /\ pc = "exit"
        /\ ~printed /\ stdout = <<>>
        /\ ~md_written /\ summary_md = <<>>
        /\ ~ENABLED Next

C5_Witness ==
    /\ pc = "exit"
    /\ LastLog = VersionError
    /\ summary # <<>>
    /\ todo # {}

-----------------------------------------------------------------------------
(* C6: on recognized drift warn_if_drift_changes logs one drift warning for each
   observation that is not NOOP and none for a NOOP; its working tally is zero
   before each observation, so the tally's create + update + delete is never
   above 1. *)
C6_DriftWarnings ==
    /\ Total(drift_summary) <= 1
    /\ pc = "drift" =>
          /\ drift_summary = NewSummary(account_marker)
          /\ DriftWarningsFor(account_marker) = NonNoop(VisitedOf("drift"))
    /\ pc = "drift_check" =>
          LET seen == VisitedOf("drift")
          IN  /\ DriftWarningsFor(account_marker)
                    = NonNoop(SubSeq(seen, 1, Len(seen) - 1))
              /\ Total(drift_summary) = (IF seen[Len(seen)] = "NOOP" THEN 0 ELSE 1)
    /\ Completed =>
          DriftWarningsFor(account_marker) = NonNoop(plan.resource_drift)

C6_Witness ==
    /\ Completed
    /\ Len(plan.resource_drift) = MaxObs
    /\ DriftWarningsFor(account_marker) = MaxObs

-----------------------------------------------------------------------------
\* the counts of the actions among the changes
TallyOfChanges(marker, changes) ==
    [account |-> marker,
     create |-> CountOf(changes, {"CREATE"}),
     update |-> CountOf(changes, {"UPDATE"}),
     delete |-> CountOf(changes, {"DELETE", "DELETE_THEN_CREATE", "CREATE_THEN_DELETE"})]

(* C7: the tally read_plan_file returns is a function of the plan file's
   resource_changes alone, whatever its resource_drift holds: the numbers of
   CREATE, of UPDATE and of the three deleting actions among the changes. *)
C7_DriftNotPublished ==
    /\ Scanning =>
          change_summary = TallyOfChanges(account_marker, plan_data.resource_changes)
    /\ Completed =>
          summary[Len(summary)]
              = TallyOfChanges(account_marker, plan_data.resource_changes)

C7_Witness ==
    /\ Completed
    /\ plan_data.resource_changes = <<"UPDATE">>
    /\ plan_data.resource_drift = <<"DELETE">>
    /\ summary[Len(summary)].update = 1
    /\ summary[Len(summary)].delete = 0

-----------------------------------------------------------------------------
\* s is lexicographically smaller than t
LexBefore(s, t) ==
    \E k \in 1..(Len(s) + 1) :
        /\ k <= Len(t)
        /\ \A j \in 1..(k - 1) : s[j] = t[j]
        /\ k <= Len(s) => s[k] < t[k]

\* the order of two adjacent rows
RowBefore(a, b) ==
    \/ a.delete > b.delete
    \/ a.delete = b.delete /\ a.update > b.update
    \/ a.delete = b.delete /\ a.update = b.update /\ a.create > b.create
    \/ /\ a.delete = b.delete /\ a.update = b.update /\ a.create = b.create
       /\ LexBefore(a.account, b.account)

Rearranged(rows, f) == [k \in 1..Len(rows) |-> rows[f[k]]]

(* C8: the report's rows are the tallies found, rearranged so that of two adjacent
   rows the earlier has the larger delete, on equal delete the larger update, on
   equal delete and update the larger create, and on three equal counters the
   lexicographically smaller account; accounts being distinct, the order does not
   depend on the order in which the tallies were found. *)
C8_RowOrder ==
    pc = "done" =>
        /\ Len(summary) = Len(unsorted)
        /\ \E f \in Permutations(1..Len(unsorted)) : summary = Rearranged(unsorted, f)
        /\ \A k \in 1..(Len(summary) - 1) : RowBefore(summary[k], summary[k + 1])
        /\ \A f \in Permutations(1..Len(unsorted)) :
              sorted(Rearranged(unsorted, f)) = summary
        /\ [k \in 1..Len(stdout) |-> stdout[k][1]]
              = [k \in 1..Len(summary) |-> summary[k].account]
        /\ md_written =>
              [k \in 1..Len(summary_md) |-> summary_md[k][1]]
                  = [k \in 1..Len(summary) |-> summary[k].account]

\* three rows, found in descending order, two of them apart by the account alone
C8_Witness ==
    /\ pc = "done"
    /\ Len(summary) = 3
    /\ summary = Rearranged(unsorted, <<3, 2, 1>>)
    /\ summary[1].delete = summary[2].delete
    /\ summary[1].update = summary[2].update
    /\ summary[1].create = summary[2].create
    /\ summary[2].update > summary[3].update

-----------------------------------------------------------------------------
\* the tallies of the example, in the order given
C9_Found ==
    << [account |-> <<98>>, create |-> 0, update |-> 0, delete |-> 2],
       [account |-> <<97>>, create |-> 0, update |-> 0, delete |-> 2],
       [account |-> <<99>>, create |-> 0, update |-> 0, delete |-> 1] >>

ReportedAccounts == [k \in 1..Len(summary) |-> summary[k].account]

\* C9 as stated: the reported order is b, a, c
C9_Original ==
    (pc = "done" /\ unsorted = C9_Found) => ReportedAccounts = << <<98>>, <<97>>, <<99>> >>

(* C9: the tallies b (delete 2), a (delete 2), c (delete 1), found in this order,
   are reported in the order a, b, c: delete descending, the tie between a and b
   broken by the account ascending. *)
C9_Amended ==
    (pc = "done" /\ unsorted = C9_Found) => ReportedAccounts = << <<97>>, <<98>>, <<99>> >>

C9_Witness ==
    /\ pc = "done"
    /\ unsorted = C9_Found
    /\ Len(summary_md) = 3

-----------------------------------------------------------------------------
\* the warnings warn_if_drift_changes logs for a drift sequence, run from its start
RECURSIVE drift_warnings(_, _, _)
drift_warnings(marker, working, actions) ==
    IF actions = <<>> THEN 0
    ELSE LET checked ==
                drift_check(marker, handle_action(Head(actions), working).account_summary)
         IN  Len(checked.log) + drift_warnings(marker, checked.drift_summary, Tail(actions))

\* the validation error of a file decoded into a fresh Plan()
AloneError(data) ==
    LET alone == ParseFromString(EmptyPlan, data)
    IN  IF ~version_supported(alone) THEN VersionError
        ELSE IF has_deferred_changes(alone) THEN DeferredError
        ELSE <<"NONE", "", <<>> >>

(* C10: what the run does with a plan file is what it would do were that file the
   only one: the module-level plan holds that file's message and nothing of an
   earlier one, the tally appended and the drift warnings logged for the account
   are those of the file alone, a validation error is the file's own, and no two
   tallies carry the same account label. *)
C10_Isolation ==
    /\ (pc \in {"record", "drift", "drift_check"} \/ Completed) =>
          /\ plan = ParseFromString(EmptyPlan, plan_data)
          /\ AloneError(plan_data) = <<"NONE", "", <<>> >>
    /\ Completed =>
          /\ summary[Len(summary)]
                = record_all(NewSummary(account_marker), plan_data.resource_changes)
          /\ DriftWarningsFor(account_marker)
                = drift_warnings(account_marker, NewSummary(account_marker),
                                 plan_data.resource_drift)
    /\ (Decoded /\ pc = "exit" /\ LastLog \in {VersionError, DeferredError}) =>
          LastLog = AloneError(plan_data)
    /\ LastLog = UnknownActionError =>
          ~Recognized(plan_data.resource_changes \o plan_data.resource_drift)
    /\ \A k, l \in 1..Len(summary) : k # l => summary[k].account # summary[l].account

C10_Witness ==
    /\ Completed
    /\ Len(summary) = 2
    /\ Total(summary[1]) = 1
    /\ summary[2].delete = 1
    /\ todo # {}

====
